---- MODULE Spec2Model ----
(***************************************************************************)
(* A model of jod.ts: diff(l, r), the recursion guard withRecursionCheck,  *)
(* arrayDiff / objDiff, and the line renderer behind lineDiff.             *)
(*                                                                         *)
(* JavaScript values are modelled as strings: numbers "n1" "n2", strings   *)
(* "sx" "sy", null, the Unset symbol, and container identities "o1".."o3"  *)
(* whose contents live in the variable heap.  "hole" marks an array index  *)
(* below the length that holds no own element.  Indices are 1-based here   *)
(* (0-based in the source).                                                *)
(***************************************************************************)
EXTENDS Integers, Sequences, FiniteSets, TLC

VARIABLES heap, left, right, status, mode, indent, stack, seen, sets,
          result, err, lines

vars == <<heap, left, right, status, mode, indent, stack, seen, sets,
          result, err, lines>>

----------------------------------------------------------------------------
(* Bounds of the input families *)

\* slots per container in the reference-graph family
GraphLen == 2
\* length of the arrays in the flat-array and shared-subtree families
MaxLen == 3
\* number of distinct property names in the key-order family
NumKeys == 3
\* depth of nested comparisons at which the engine's call stack is exhausted
MaxDepth == 12
\* largest indent passed to lineDiff
MaxIndent == 1

----------------------------------------------------------------------------
(* Values *)

Nums == {"n1", "n2"}
Strs == {"sx", "sy"}
Null == "null"
Unset == "unset"
Hole == "hole"
Objs == {"o1", "o2", "o3"}
Values == Nums \cup Strs \cup {Null, Unset} \cup Objs

\* property names, as sequences of UTF-16 code units: "a", "b", "ab", "B", "aa"
KeyPool == << <<97>>, <<98>>, <<97, 98>>, <<66>>, <<97, 97>> >>
AllKeys == {KeyPool[i] : i \in 1..NumKeys}

\* typeof v
TypeOf(v) ==
    IF v \in Strs THEN "string"
    ELSE IF v \in Nums THEN "number"
    ELSE IF v = Unset THEN "symbol"
    ELSE "object"

\* Array.isArray(v)
IsArray(h, v) == v \in Objs /\ h[v].kind = "array"

EmptyArray == [kind |-> "array", keys |-> <<>>, vals |-> <<>>]
EmptyObject == [kind |-> "object", keys |-> <<>>, vals |-> <<>>]

SeqsUpTo(S, n) == UNION {[1..k -> S] : k \in 0..n}

\* sequences of pairwise distinct elements of S
InjSeqs(S) ==
    {s \in SeqsUpTo(S, Cardinality(S)) :
        \A i, j \in 1..Len(s) : i # j => s[i] # s[j]}

Arr(elems) == [kind |-> "array", keys |-> <<>>, vals |-> elems]
Obj(ks, vs) == [kind |-> "object", keys |-> ks, vals |-> vs]

\* a container of the given kind with the given slot values; an object takes
\* the first property names of KeyPool in insertion order
Container(kind, vs) ==
    IF kind = "array" THEN Arr(vs)
    ELSE Obj([i \in 1..Len(vs) |-> KeyPool[i]], vs)

----------------------------------------------------------------------------
(* diff: the pure parts *)

Max(a, b) == IF a > b THEN a ELSE b

\* hop.call(o, i) ? o[i] : Unset, for an array o
ElemAt(h, o, i) ==
    IF i <= Len(h[o].vals) /\ h[o].vals[i] # Hole THEN h[o].vals[i] ELSE Unset

\* position of key k in the own keys of o, 0 when o has no such key
KeyIndex(h, o, k) ==
    IF \E j \in 1..Len(h[o].keys) : h[o].keys[j] = k
    THEN CHOOSE j \in 1..Len(h[o].keys) : h[o].keys[j] = k
    ELSE 0

\* hop.call(o, key) ? o[key] : Unset, for an object o
AttrAt(h, o, k) ==
    IF KeyIndex(h, o, k) # 0 THEN h[o].vals[KeyIndex(h, o, k)] ELSE Unset

\* string comparison by UTF-16 code units, the order of Array.prototype.sort()
RECURSIVE KeyLess(_, _)
KeyLess(a, b) ==
    IF b = <<>> THEN FALSE
    ELSE IF a = <<>> THEN TRUE
    ELSE IF Head(a) # Head(b) THEN Head(a) < Head(b)
    ELSE KeyLess(Tail(a), Tail(b))

\* Array.from(new Set(ks)): the first occurrence of every key, in order
RECURSIVE Dedupe(_)
Dedupe(ks) ==
    IF ks = <<>> THEN <<>>
    ELSE LET front == Dedupe(SubSeq(ks, 1, Len(ks) - 1))
             k == ks[Len(ks)]
         IN  IF \E j \in 1..Len(front) : front[j] = k THEN front
             ELSE Append(front, k)

RECURSIVE InsertKey(_, _)
InsertKey(sorted, k) ==
    IF sorted = <<>> THEN <<k>>
    ELSE IF KeyLess(k, Head(sorted)) THEN <<k>> \o sorted
    ELSE <<Head(sorted)>> \o InsertKey(Tail(sorted), k)

\* the keys left unsorted, in insertion order
SortKeys_Unsorted(ks) == ks

\* ks.sort()
RECURSIVE SortKeys(_)
SortKeys(ks) ==
    IF ks = <<>> THEN <<>>
    ELSE InsertKey(SortKeys(SubSeq(ks, 1, Len(ks) - 1)), ks[Len(ks)])

\* Array.from(new Set([...Object.keys(l), ...Object.keys(r)])).sort()
UnionKeys(h, l, r) == SortKeys(Dedupe(h[l].keys \o h[r].keys))

\* stringDiff(l, r)
StringDiff(l, r) ==
    IF l = r THEN [type |-> "equal", value |-> l]
    ELSE [type |-> "unequal", left |-> l, right |-> r]

\* the branch innerDiff takes on (l, r):
\* "throw", "leaf" or the container comparison it delegates to
InnerKind(h, l, r) ==
    IF l = Unset THEN (IF r = Unset THEN "throw" ELSE "leaf")
    ELSE IF r = Unset THEN "leaf"
    ELSE IF l = r THEN "leaf"
    ELSE IF TypeOf(l) = "string" /\ TypeOf(r) = "string" THEN "leaf"
    ELSE IF TypeOf(l) = "object" /\ TypeOf(r) = "object" THEN
        IF IsArray(h, l) THEN (IF IsArray(h, r) THEN "array" ELSE "leaf")
        ELSE IF IsArray(h, r) THEN "leaf"
        ELSE IF l = Null \/ r = Null THEN "leaf"
        ELSE "object"
    ELSE "leaf"

\* the Diff innerDiff returns without recursing
InnerLeaf(h, l, r) ==
    IF l = Unset THEN [type |-> "add", value |-> r]
    ELSE IF r = Unset THEN [type |-> "remove", value |-> l]
    ELSE IF l = r THEN [type |-> "equal", value |-> l]
    ELSE IF TypeOf(l) = "string" /\ TypeOf(r) = "string" THEN StringDiff(l, r)
    ELSE [type |-> "unequal", left |-> l, right |-> r]

\* anyDiff = anyDiff || d.type !== 'equal'
AnyDiffNext(anyDiff, d) == anyDiff \/ d.type # "equal"

\* the container node returned although no child differs
ArrayResult_NoCollapse(anyDiff, l, elements) ==
    [type |-> "array", elements |-> elements]

\* the value the body of arrayDiff returns
ArrayResult(anyDiff, l, elements) ==
    IF ~anyDiff THEN [type |-> "equal", value |-> l]
    ELSE [type |-> "array", elements |-> elements]

\* the value the body of objDiff returns
ObjResult(anyDiff, l, attributes) ==
    IF ~anyDiff THEN [type |-> "equal", value |-> l]
    ELSE [type |-> "object", attributes |-> attributes]

----------------------------------------------------------------------------
(* The recursion guard.  seen maps a left container to the identity of a   *)
(* Set object (0: no entry); sets[id] is the content of that Set object.   *)

SeenPairs(sn, ss) ==
    {p \in Objs \X Objs : sn[p[1]] # 0 /\ p[2] \in ss[sn[p[1]]]}

\* withRecursionCheck up to the try: the lookup, the throw, the registration
GuardEnter(l, r, sn, ss) ==
    IF sn[l] = 0
    THEN [circular |-> FALSE,
          seen |-> [sn EXCEPT ![l] = Len(ss) + 1],
          sets |-> Append(ss, {}),
          seenR |-> Len(ss) + 1]
    ELSE IF r \in ss[sn[l]]
    THEN [circular |-> TRUE, seen |-> sn, sets |-> ss, seenR |-> sn[l]]
    ELSE [circular |-> FALSE,
          seen |-> sn,
          sets |-> [ss EXCEPT ![sn[l]] = @ \cup {r}],
          seenR |-> sn[l]]

\* no cleanup at all on exit
GuardExit_NoCleanup(f, sn, ss) == [seen |-> sn, sets |-> ss]

\* the pair is left registered on exit
GuardExit_KeepsPair(f, sn, ss) ==
    [seen |-> IF ss[f.seenR] = {} THEN [sn EXCEPT ![f.l] = 0] ELSE sn,
     sets |-> ss]

\* the finally block of withRecursionCheck
GuardExit(f, sn, ss) ==
    LET ss2 == [ss EXCEPT ![f.seenR] = @ \ {f.r}]
    IN  [seen |-> IF ss2[f.seenR] = {} THEN [sn EXCEPT ![f.l] = 0] ELSE sn,
         sets |-> ss2]

\* what the seen map holds: its keys and the pairs it records
Snapshot(sn, ss) ==
    [keys |-> {o \in Objs : sn[o] # 0}, pairs |-> SeenPairs(sn, ss)]

\* the frame of a container comparison whose body starts to run; entryKeys
\* and entryPairs remember the seen map as withRecursionCheck found it
NewFrame(h, l, r, kind, sid, entry) ==
    [l |-> l, r |-> r, kind |-> kind,
     keys |-> IF kind = "object" THEN UnionKeys(h, l, r) ELSE <<>>,
     max |-> IF kind = "object" THEN Len(UnionKeys(h, l, r))
             ELSE Max(Len(h[l].vals), Len(h[r].vals)),
     i |-> 1, anyDiff |-> FALSE, out |-> <<>>,
     seenR |-> sid, entryKeys |-> entry.keys, entryPairs |-> entry.pairs]

----------------------------------------------------------------------------
(* Initial states: the arguments of one call, drawn from five families *)

NoDiff == [type |-> "none"]

Fresh ==
    /\ status = "start"
    /\ mode = "none"
    /\ indent = 0
    /\ stack = <<>>
    /\ seen = [o \in Objs |-> 0]
    /\ sets = <<>>
    /\ result = NoDiff
    /\ err = "none"
    /\ lines = <<>>

\* any two values, the containers being empty
InitBasic ==
    /\ heap = [o \in Objs |-> IF o = "o2" THEN EmptyObject ELSE EmptyArray]
    /\ left \in Values
    /\ right \in Values

\* reference graphs over three containers of one kind, cycles included
InitGraph ==
    /\ \E kind \in {"array", "object"} :
       \E v1, v2 \in SeqsUpTo(Objs, GraphLen) :
       \E v3 \in SeqsUpTo(Objs \cup {"n1"}, 1) :
          heap = [o \in Objs |->
                     Container(kind, IF o = "o1" THEN v1
                                     ELSE IF o = "o2" THEN v2 ELSE v3)]
    /\ left = "o1"
    /\ right = "o2"

\* two flat objects whose keys are inserted in any order
InitKeys ==
    /\ \E k1, k2 \in InjSeqs(AllKeys) :
       \E v \in Nums :
          heap = [o \in Objs |->
                     IF o = "o1" THEN Obj(k1, [i \in 1..Len(k1) |-> "n1"])
                     ELSE IF o = "o2" THEN Obj(k2, [i \in 1..Len(k2) |-> v])
                     ELSE EmptyObject]
    /\ left = "o1"
    /\ right = "o2"

\* two flat arrays, holes included
InitArrays ==
    /\ \E v1 \in SeqsUpTo({"n1", Hole}, MaxLen) :
       \E v2 \in SeqsUpTo({"n1", "n2", Hole}, MaxLen) :
          heap = [o \in Objs |->
                     IF o = "o1" THEN Arr(v1)
                     ELSE IF o = "o2" THEN Arr(v2) ELSE EmptyArray]
    /\ left = "o1"
    /\ right = "o2"

\* acyclic arrays that hold the same container at several indices
InitShared ==
    /\ \E v1 \in SeqsUpTo({"o3", "n1"}, MaxLen) :
       \E v2 \in SeqsUpTo({"o1", "o3"}, MaxLen) :
       \E v3 \in SeqsUpTo({"n1"}, 1) :
          heap = [o \in Objs |->
                     Arr(IF o = "o1" THEN v1 ELSE IF o = "o2" THEN v2 ELSE v3)]
    /\ left = "o1"
    /\ right = "o2"

Init ==
    /\ Fresh
    /\ (InitBasic \/ InitGraph \/ InitKeys \/ InitArrays \/ InitShared)

----------------------------------------------------------------------------
(* diff, one call of innerDiff per step *)

Top == stack[Len(stack)]
Pop == SubSeq(stack, 1, Len(stack) - 1)

\* the arguments of the innerDiff call the loop of the top frame makes next
ArgL == IF Top.kind = "array" THEN ElemAt(heap, Top.l, Top.i)
        ELSE AttrAt(heap, Top.l, Top.keys[Top.i])
ArgR == IF Top.kind = "array" THEN ElemAt(heap, Top.r, Top.i)
        ELSE AttrAt(heap, Top.r, Top.keys[Top.i])

\* elements.push(elemDiff) / attributes.push({key, diff: attrDiff})
Pushed(f, d) ==
    [f EXCEPT !.anyDiff = AnyDiffNext(f.anyDiff, d),
              !.out = Append(f.out, IF f.kind = "array" THEN d
                                    ELSE [key |-> f.keys[f.i], diff |-> d]),
              !.i = f.i + 1]

\* the top-level call innerDiff(left, right, new Map())
TopCall ==
    LET kind == InnerKind(heap, left, right)
        g == GuardEnter(left, right, seen, sets)
    IN  IF kind = "throw"
        THEN /\ status' = "threw"
             /\ err' = "unset"
             /\ UNCHANGED <<stack, seen, sets, result>>
        ELSE IF kind = "leaf"
        THEN /\ status' = "returned"
             /\ result' = InnerLeaf(heap, left, right)
             /\ UNCHANGED <<stack, seen, sets, err>>
        ELSE /\ status' = "running"
             /\ stack' = <<NewFrame(heap, left, right, kind, g.seenR,
                                    Snapshot(seen, sets))>>
             /\ seen' = g.seen
             /\ sets' = g.sets
             /\ UNCHANGED <<result, err>>

\* diff(l, r)
DiffCall ==
    /\ status = "start"
    /\ mode' = "diff"
    /\ TopCall
    /\ UNCHANGED <<heap, left, right, indent, lines>>

\* lineDiff(l, r, n) up to the return of its call of diff
LineDiffCall(n) ==
    /\ status = "start"
    /\ mode' = "lineDiff"
    /\ indent' = n
    /\ IF n < 1
       THEN /\ status' = "threw"
            /\ err' = "indent"
            /\ UNCHANGED <<stack, seen, sets, result>>
       ELSE TopCall
    /\ UNCHANGED <<heap, left, right, lines>>

InLoop == status = "running" /\ Top.i <= Top.max

\* the loop body's innerDiff returns add, remove, equal or unequal
ChildLeaf ==
    /\ InLoop
    /\ InnerKind(heap, ArgL, ArgR) = "leaf"
    /\ stack' = Append(Pop, Pushed(Top, InnerLeaf(heap, ArgL, ArgR)))
    /\ UNCHANGED <<heap, left, right, status, mode, indent, seen, sets,
                   result, err, lines>>

\* the loop body's innerDiff throws 'Cannot compare two unset values'
ChildUnset ==
    /\ InLoop
    /\ InnerKind(heap, ArgL, ArgR) = "throw"
    /\ status' = "unwinding"
    /\ err' = "unset"
    /\ UNCHANGED <<heap, left, right, mode, indent, stack, seen, sets,
                   result, lines>>

\* the loop body's innerDiff enters the comparison of a container pair
ChildEnter ==
    /\ InLoop
    /\ InnerKind(heap, ArgL, ArgR) \in {"array", "object"}
    /\ Len(stack) < MaxDepth
    /\ LET g == GuardEnter(ArgL, ArgR, seen, sets)
       IN  /\ ~g.circular
           /\ stack' = Append(stack,
                  NewFrame(heap, ArgL, ArgR, InnerKind(heap, ArgL, ArgR),
                           g.seenR, Snapshot(seen, sets)))
           /\ seen' = g.seen
           /\ sets' = g.sets
    /\ UNCHANGED <<heap, left, right, status, mode, indent, result, err, lines>>

\* withRecursionCheck throws 'Circular structure encountered'
ChildCircular ==
    /\ InLoop
    /\ InnerKind(heap, ArgL, ArgR) \in {"array", "object"}
    /\ Len(stack) < MaxDepth
    /\ GuardEnter(ArgL, ArgR, seen, sets).circular
    /\ status' = "unwinding"
    /\ err' = "circular"
    /\ UNCHANGED <<heap, left, right, mode, indent, stack, seen, sets,
                   result, lines>>

\* the engine's call stack is exhausted: RangeError
ChildOverflow ==
    /\ InLoop
    /\ InnerKind(heap, ArgL, ArgR) \in {"array", "object"}
    /\ Len(stack) >= MaxDepth
    /\ status' = "unwinding"
    /\ err' = "overflow"
    /\ UNCHANGED <<heap, left, right, mode, indent, stack, seen, sets,
                   result, lines>>

\* the loop is over: the body returns, the finally block runs, the caller goes on
ReturnStep ==
    /\ status = "running"
    /\ Top.i > Top.max
    /\ LET f == Top
           d == IF f.kind = "array" THEN ArrayResult(f.anyDiff, f.l, f.out)
                ELSE ObjResult(f.anyDiff, f.l, f.out)
           x == GuardExit(f, seen, sets)
       IN  /\ seen' = x.seen
           /\ sets' = x.sets
           /\ IF Len(stack) = 1
              THEN /\ stack' = <<>>
                   /\ status' = "returned"
                   /\ result' = d
              ELSE /\ stack' = Append(SubSeq(stack, 1, Len(stack) - 2),
                                      Pushed(stack[Len(stack) - 1], d))
                   /\ UNCHANGED <<status, result>>
    /\ UNCHANGED <<heap, left, right, mode, indent, err, lines>>

\* an error leaves one comparison: its finally block runs
UnwindStep ==
    /\ status = "unwinding"
    /\ stack # <<>>
    /\ LET x == GuardExit(Top, seen, sets)
       IN  /\ seen' = x.seen
           /\ sets' = x.sets
    /\ stack' = Pop
    /\ status' = IF Len(stack) = 1 THEN "threw" ELSE "unwinding"
    /\ UNCHANGED <<heap, left, right, mode, indent, result, err, lines>>

----------------------------------------------------------------------------
(* The default stringifier.  A line of text is a sequence of tokens; the   *)
(* tokens of the stringifier ("jws", "jkey", "jtxt", "jcomma") are kept    *)
(* apart from those the renderer adds ("ws", "key", "txt", "comma").       *)

Tok(t, v) == [t |-> t, v |-> <<v>>]

Children(h, o) == {h[o].vals[i] : i \in 1..Len(h[o].vals)} \cap Objs

RECURSIVE ReachIn(_, _, _)
ReachIn(h, S, n) ==
    IF n = 0 THEN S
    ELSE ReachIn(h, S \cup UNION {Children(h, o) : o \in S}, n - 1)

\* the containers reachable from v in one or more steps
ReachPlus(h, v) ==
    IF v \in Objs THEN ReachIn(h, Children(h, v), Cardinality(Objs)) ELSE {}

\* JSON.stringify throws 'Converting circular structure to JSON' on v
Cyclic(h, v) ==
    v \in Objs /\ \E o \in ReachPlus(h, v) \cup {v} : o \in ReachPlus(h, o)

JsonIndent(ind, ls) == [i \in 1..Len(ls) |-> <<Tok("jws", ind)>> \o ls[i]]

JsonComma(ls) == [i \in 1..Len(ls) |->
                     IF i = Len(ls) THEN ls[i] \o <<Tok("jcomma", ",")>>
                     ELSE ls[i]]

JsonKeyed(k, ls) == [i \in 1..Len(ls) |->
                        IF i = 1 THEN <<Tok("jkey", k)>> \o ls[i] ELSE ls[i]]

\* JSON.stringify(v, null, ind).split('\n'), for a v that is not cyclic
RECURSIVE JsonLines(_, _, _)
RECURSIVE JsonItems(_, _, _, _)
JsonLines(h, v, ind) ==
    IF v = Hole THEN << <<Tok("jtxt", "null")>> >>
    ELSE IF v \notin Objs THEN << <<Tok("jtxt", v)>> >>
    ELSE IF h[v].vals = <<>>
    THEN << <<Tok("jtxt", IF h[v].kind = "array" THEN "[]" ELSE "{}")>> >>
    ELSE << <<Tok("jtxt", IF h[v].kind = "array" THEN "[" ELSE "{")>> >>
         \o JsonItems(h, v, ind, 1)
         \o << <<Tok("jtxt", IF h[v].kind = "array" THEN "]" ELSE "}")>> >>

JsonItems(h, o, ind, i) ==
    IF i > Len(h[o].vals) THEN <<>>
    ELSE LET inner == JsonLines(h, h[o].vals[i], ind)
             keyed == IF h[o].kind = "array" THEN inner
                      ELSE JsonKeyed(h[o].keys[i], inner)
             item == JsonIndent(ind, keyed)
         IN  (IF i < Len(h[o].vals) THEN JsonComma(item) ELSE item)
             \o JsonItems(h, o, ind, i + 1)

\* defaultStringify(o, indent)
DefaultStringify(h, v, ind) == JsonLines(h, v, ind)

----------------------------------------------------------------------------
(* The renderer *)

Line(action, text) == [action |-> action, text |-> text]

\* indentIterable(indent, iter)
IndentIterable(ind, ls) ==
    [i \in 1..Len(ls) |-> Line(ls[i].action, <<Tok("ws", ind)>> \o ls[i].text)]

\* the key prefix put on every line
PrefixFirst_Every(prefix, ls) ==
    [i \in 1..Len(ls) |-> Line(ls[i].action, prefix \o ls[i].text)]

\* prefixFirst(key, iter)
PrefixFirst(prefix, ls) ==
    [i \in 1..Len(ls) |->
        IF i = 1 THEN Line(ls[i].action, prefix \o ls[i].text) ELSE ls[i]]

\* mapIter(stringify(value, indent), line => [action, line + suffix])
MapLines(strs, action, suffix) ==
    [i \in 1..Len(strs) |-> Line(action, strs[i] \o suffix)]

\* the prefix innerLineDiff computes from key; key is <<>> for undefined
KeyPrefix(key) == IF key = <<>> THEN <<>> ELSE <<Tok("key", key[1])>>

Comma == <<Tok("comma", ",")>>

\* innerLineDiff(d, indent, key, suffix, stringify), with asList inlined as
\* ListLines: every item but the last rendered with ',', the last with ''
RECURSIVE InnerLineDiff(_, _, _, _, _)
RECURSIVE ListLines(_, _, _, _)
InnerLineDiff(h, d, ind, key, suffix) ==
    LET prefix == KeyPrefix(key)
    IN  CASE d.type = "equal" ->
               PrefixFirst(prefix,
                   MapLines(DefaultStringify(h, d.value, ind), "keep", suffix))
          [] d.type = "add" ->
               PrefixFirst(prefix,
                   MapLines(DefaultStringify(h, d.value, ind), "add", suffix))
          [] d.type = "remove" ->
               PrefixFirst(prefix,
                   MapLines(DefaultStringify(h, d.value, ind), "remove", suffix))
          [] d.type = "unequal" ->
               PrefixFirst(prefix,
                   MapLines(DefaultStringify(h, d.left, ind), "remove", suffix))
               \o PrefixFirst(prefix,
                   MapLines(DefaultStringify(h, d.right, ind), "add", suffix))
          [] d.type = "object" ->
               <<Line("keep", prefix \o <<Tok("txt", "{")>>)>>
               \o ListLines(h, d.attributes, ind, 1)
               \o <<Line("keep", <<Tok("txt", "}")>> \o suffix)>>
          [] d.type = "array" ->
               <<Line("keep", prefix \o <<Tok("txt", "[")>>)>>
               \o ListLines(h, d.elements, ind, 1)
               \o <<Line("keep", <<Tok("txt", "]")>> \o suffix)>>

ListLines(h, items, ind, i) ==
    IF i > Len(items) THEN <<>>
    ELSE LET isAttr == "key" \in DOMAIN items[i]
             sub == IF isAttr THEN items[i].diff ELSE items[i]
             key == IF isAttr THEN <<items[i].key>> ELSE <<>>
             suffix == IF i < Len(items) THEN Comma ELSE <<>>
         IN  IndentIterable(ind, InnerLineDiff(h, sub, ind, key, suffix))
             \o ListLines(h, items, ind, i + 1)

\* the values of d that innerLineDiff hands to the stringifier
RECURSIVE LeafValues(_)
LeafValues(d) ==
    CASE d.type \in {"equal", "add", "remove"} -> {d.value}
      [] d.type = "unequal" -> {d.left, d.right}
      [] d.type = "object" ->
           UNION {LeafValues(d.attributes[i].diff) : i \in 1..Len(d.attributes)}
      [] d.type = "array" ->
           UNION {LeafValues(d.elements[i]) : i \in 1..Len(d.elements)}

\* charPrefixFor(action)
CharPrefixFor(action) ==
    IF action = "keep" THEN " " ELSE IF action = "add" THEN "+" ELSE "-"

\* the rest of lineDiff: every line of innerLineDiff, marked, goes to the
\* console; a stringifier that throws ends the call
RenderLines ==
    /\ status = "returned"
    /\ mode = "lineDiff"
    /\ IF \E v \in LeafValues(result) : Cyclic(heap, v)
       THEN /\ status' = "threw"
            /\ err' = "stringify"
            /\ UNCHANGED lines
       ELSE /\ status' = "rendered"
            /\ lines' = LET ls == InnerLineDiff(heap, result, indent, <<>>, <<>>)
                        IN  [i \in 1..Len(ls) |->
                                [marker |-> CharPrefixFor(ls[i].action),
                                 action |-> ls[i].action,
                                 text |-> ls[i].text]]
            /\ UNCHANGED err
    /\ UNCHANGED <<heap, left, right, mode, indent, stack, seen, sets, result>>

Next ==
    \/ DiffCall
    \/ \E n \in 0..MaxIndent : LineDiffCall(n)
    \/ ChildLeaf
    \/ ChildUnset
    \/ ChildEnter
    \/ ChildCircular
    \/ ChildOverflow
    \/ ReturnStep
    \/ UnwindStep
    \/ RenderLines

Spec == Init /\ [][Next]_vars

----------------------------------------------------------------------------
(* Properties *)

Completed == status \in {"returned", "threw", "rendered"}
HasResult == status \in {"returned", "rendered"}

\* every Diff node of the tree d, d included
RECURSIVE SubDiffs(_)
SubDiffs(d) ==
    {d} \cup
    (CASE d.type = "object" ->
            UNION {SubDiffs(d.attributes[i].diff) : i \in 1..Len(d.attributes)}
       [] d.type = "array" ->
            UNION {SubDiffs(d.elements[i]) : i \in 1..Len(d.elements)}
       [] OTHER -> {})

\* the child Diffs of a container node
ChildDiffs(n) ==
    IF n.type = "object"
    THEN [i \in 1..Len(n.attributes) |-> n.attributes[i].diff]
    ELSE IF n.type = "array" THEN n.elements
    ELSE <<>>

SomeChildDiffers(n) ==
    \E i \in 1..Len(ChildDiffs(n)) : ChildDiffs(n)[i].type # "equal"

\* the child Diffs the top frame has collected
Collected(f) ==
    [i \in 1..Len(f.out) |-> IF f.kind = "array" THEN f.out[i] ELSE f.out[i].diff]

\* the Diff a ReturnStep hands to its caller
Delivered(stk, res) ==
    IF stk = <<>> THEN res
    ELSE Collected(stk[Len(stk)])[Len(stk[Len(stk)].out)]

InFlightPairs == [i \in 1..Len(stack) |-> <<stack[i].l, stack[i].r>>]

\* C1: while the comparison of a container pair is in flight, no nested
\* comparison of the same ordered pair starts to run its body: the pairs of
\* the comparisons in flight are pairwise distinct.
C1_NoReentry ==
    \A i, j \in 1..Len(stack) :
        i < j => InFlightPairs[i] # InFlightPairs[j]

\* C2: every call of diff terminates with a Diff or the circular-structure
\* error: the call stack is never exhausted, and no comparison in flight is
\* nested in a comparison of the same pair that found the seen map in the same
\* state (such a comparison repeats its ancestor's steps without end).
C2_Terminates ==
    /\ err # "overflow"
    /\ \A i, j \in 1..Len(stack) :
          i < j =>
             ~ /\ stack[i].l = stack[j].l
               /\ stack[i].r = stack[j].r
               /\ stack[i].entryKeys = stack[j].entryKeys
               /\ stack[i].entryPairs = stack[j].entryPairs

\* C3: collapsing law.  Every object or array node of a returned Diff has a
\* child that is not equal, and a container comparison whose children are
\* all equal (an empty one included) hands Equal{value: left} to its caller.
C3_Collapsing ==
    /\ [](HasResult =>
            \A n \in SubDiffs(result) :
                n.type \in {"object", "array"} => SomeChildDiffers(n))
    /\ [][(status = "running" /\ Top.i > Top.max
              /\ \A i \in 1..Len(Top.out) : Collected(Top)[i].type = "equal")
           => Delivered(stack', result') = [type |-> "equal", value |-> Top.l]]_vars

\* a returned array node holds an Equal that stands for two distinct containers
C3_Witness ==
    /\ status = "returned"
    /\ result.type = "array"
    /\ \E i \in 1..Len(result.elements) :
          /\ result.elements[i].type = "equal"
          /\ result.elements[i].value \in Objs
          /\ ElemAt(heap, right, i) # result.elements[i].value

\* C4: with neither top-level argument the absence sentinel, diff never fails
\* with 'Cannot compare two unset values'.
C4_NoUnsetError ==
    (left # Unset /\ right # Unset) => err # "unset"

\* code-unit lexicographic order, stated without recursion
LexLess(a, b) ==
    \E i \in 1..Max(Len(a), Len(b)) :
        /\ \A j \in 1..(i - 1) : j <= Len(a) /\ j <= Len(b) /\ a[j] = b[j]
        /\ \/ i > Len(a) /\ i <= Len(b)
           \/ i <= Len(a) /\ i <= Len(b) /\ a[i] < b[i]

OwnKeys(o) == {heap[o].keys[i] : i \in 1..Len(heap[o].keys)}

\* C5: when the diff of two objects is an ObjectDiff, its attribute keys are
\* the union of both sides' own keys, each once, in strictly ascending
\* lexicographic order; a key of l alone is a remove, a key of r alone an add.
C5_SortedUnion ==
    (HasResult /\ result.type = "object") =>
        LET at == result.attributes
        IN  /\ {at[i].key : i \in 1..Len(at)} = OwnKeys(left) \cup OwnKeys(right)
            /\ \A i \in 1..(Len(at) - 1) : LexLess(at[i].key, at[i + 1].key)
            /\ \A i \in 1..Len(at) :
                  /\ at[i].key \notin OwnKeys(right) => at[i].diff.type = "remove"
                  /\ at[i].key \notin OwnKeys(left) => at[i].diff.type = "add"

\* an ObjectDiff with an add and a remove, from keys inserted out of order
C5_Witness ==
    /\ status = "returned"
    /\ result.type = "object"
    /\ \E i \in 1..(Len(heap[left].keys) - 1) :
          LexLess(heap[left].keys[i + 1], heap[left].keys[i])
    /\ \E i \in 1..(Len(heap[right].keys) - 1) :
          LexLess(heap[right].keys[i + 1], heap[right].keys[i])
    /\ \E i \in 1..Len(result.attributes) : result.attributes[i].diff.type = "add"
    /\ \E i \in 1..Len(result.attributes) : result.attributes[i].diff.type = "remove"

Min(a, b) == IF a < b THEN a ELSE b

\* two arrays of different lengths that hold the same element at every
\* shared index
C6_Inputs ==
    /\ IsArray(heap, left) /\ IsArray(heap, right)
    /\ Len(heap[left].vals) # Len(heap[right].vals)
    /\ \A i \in 1..Min(Len(heap[left].vals), Len(heap[right].vals)) :
          /\ heap[left].vals[i] # Hole
          /\ heap[left].vals[i] = heap[right].vals[i]

\* C6: for such arrays diff returns an ArrayDiff of max(len l, len r)
\* elements: equal at the shared indices, then add when r is longer and
\* remove when l is longer.
C6_TrailingAddRemove ==
    (C6_Inputs /\ mode = "diff" /\ Completed) =>
        LET nl == Len(heap[left].vals)
            nr == Len(heap[right].vals)
        IN  /\ status = "returned"
            /\ result.type = "array"
            /\ Len(result.elements) = Max(nl, nr)
            /\ \A i \in 1..Len(result.elements) :
                  result.elements[i].type =
                      IF i <= Min(nl, nr) THEN "equal"
                      ELSE IF nr > nl THEN "add" ELSE "remove"

\* every {key, diff} attribute of the tree d, at every depth
Attributes(d) ==
    UNION {{n.attributes[i] : i \in 1..Len(n.attributes)} :
              n \in {m \in SubDiffs(d) : m.type = "object"}}

\* the line starts with the key prefix of key k
HasKeyPrefix(line, k) ==
    /\ line.text # <<>>
    /\ line.text[1].t = "key"
    /\ line.text[1].v = <<k>>

\* the lines innerLineDiff produces for attribute a, before asList indents them
AttrLines(a, suffix) == InnerLineDiff(heap, a.diff, indent, <<a.key>>, suffix)

\* C7 as stated: of the lines produced for an attribute, the first and no
\* other starts with the key prefix, whatever the type of the attribute's diff.
C7_PrefixOnFirstLineOnly ==
    status = "rendered" =>
        \A a \in Attributes(result) : \A suffix \in {<<>>, Comma} :
            \A i \in 1..Len(AttrLines(a, suffix)) :
                HasKeyPrefix(AttrLines(a, suffix)[i], a.key) <=> i = 1

\* C7 as amended: the key prefix starts the first line produced for the
\* attribute and no other, except that an unequal attribute carries it twice:
\* on the first line of the removed block and on the first line of the added
\* block.
C7_PrefixPerBlock ==
    status = "rendered" =>
        \A a \in Attributes(result) : \A suffix \in {<<>>, Comma} :
            LET ls == AttrLines(a, suffix)
            IN  \A i \in 1..Len(ls) :
                    HasKeyPrefix(ls[i], a.key) <=>
                        \/ i = 1
                        \/ /\ a.diff.type = "unequal"
                           /\ ls[i].action = "add"
                           /\ ls[i - 1].action = "remove"

\* a rendered ObjectDiff with an unequal attribute and one of another type
C7_Witness ==
    /\ status = "rendered"
    /\ result.type = "object"
    /\ \E a \in Attributes(result) : a.diff.type = "unequal"
    /\ \E a \in Attributes(result) : a.diff.type = "equal"

\* the line ends with the separator the renderer adds
EndsWithComma(line) ==
    /\ line.text # <<>>
    /\ line.text[Len(line.text)].t = "comma"

\* the lines innerLineDiff produces for child i of container node n
ChildLines(n, i) ==
    InnerLineDiff(heap, ChildDiffs(n)[i], indent,
                  IF n.type = "object" THEN <<n.attributes[i].key>> ELSE <<>>,
                  IF i < Len(ChildDiffs(n)) THEN Comma ELSE <<>>)

\* C8: of the lines produced for a child of an ObjectDiff or ArrayDiff, the
\* added comma ends the last line when the child is not the final one, and
\* no other line.  Stated for the children rendered as one block (every type
\* but unequal, whose two blocks each end with the comma).
C8_TrailingSeparator ==
    status = "rendered" =>
        \A n \in {m \in SubDiffs(result) : m.type \in {"object", "array"}} :
            \A i \in 1..Len(ChildDiffs(n)) :
                ChildDiffs(n)[i].type # "unequal" =>
                    \A j \in 1..Len(ChildLines(n, i)) :
                        EndsWithComma(ChildLines(n, i)[j]) <=>
                            (i < Len(ChildDiffs(n)) /\ j = Len(ChildLines(n, i)))

\* C9: a comparison that exits, by return or by an error, leaves in the seen
\* map the pairs that were recorded when it was entered; when the call of
\* diff is over the seen map records no pair.
C9_GuardRestored ==
    /\ [][Len(stack') < Len(stack) =>
             SeenPairs(seen', sets') = Top.entryPairs]_vars
    /\ [](Completed => SeenPairs(seen, sets) = {})

\* the circular-structure error has left every comparison in flight, one of
\* which had registered its pair
C9_Witness ==
    /\ status = "threw"
    /\ err = "circular"
    /\ SeenPairs(seen, sets) = {}

\* neither argument reaches a reference cycle
Acyclic == ~Cyclic(heap, left) /\ ~Cyclic(heap, right)

\* C10: on inputs without a reference cycle diff never fails with
\* 'Circular structure encountered'.
C10_NoFalseCircular ==
    Acyclic => err # "circular"

\* diff has returned on acyclic arrays that hold one pair of distinct
\* containers at three indices
C10_Witness ==
    /\ Acyclic
    /\ status = "returned"
    /\ result.type = "array"
    /\ \E i, j, k \in 1..Len(result.elements) :
          /\ i < j /\ j < k
          /\ \A m \in {i, j, k} :
                /\ ElemAt(heap, left, m) = ElemAt(heap, left, i)
                /\ ElemAt(heap, right, m) = ElemAt(heap, right, i)
          /\ InnerKind(heap, ElemAt(heap, left, i), ElemAt(heap, right, i)) = "array"

====
